---- MODULE Spec2Model ----
(***************************************************************************)
(* Model of the smart-home hardware layer (hardware_controller.py) and of  *)
(* the Streamlit dashboard script that drives it (Home_Dashboard.py).      *)
(*                                                                         *)
(* Three specifications share the controller operators below:              *)
(*   Spec      the dashboard process: sessions, script reruns, selector;   *)
(*   CtrlSpec  one controller driven through its API in any call order;    *)
(*   DistSpec  one RaspberryPiController.get_distance() measurement.       *)
(*                                                                         *)
(* A Python exception is the "out" field of an operation's result: "ok"    *)
(* when the call returned, otherwise the name of the exception raised.     *)
(* None is the string "None" for return values and 0 for object handles.   *)
(***************************************************************************)
EXTENDS Integers, Sequences, FiniteSets, TLC

VARIABLES
    ctrls,          \* controller objects constructed so far: id -> fields
    pins,           \* GPIO channels currently configured by GPIO.setup
    orphans,        \* hardware objects still live that no field refers to
    files,          \* paths that exist on disk
    last,           \* the most recent call and its outcome
    hist,           \* per controller: call history the claims speak about
    session_state,  \* per session: the cached hw_controller (0: key absent)
    pc,             \* per session: position of the running script
    proc,           \* process-level history: platform, selector runs, exit
    dist            \* the get_distance() measurement in progress

vars == <<ctrls, pins, orphans, files, last, hist, session_state, pc, proc, dist>>

----------------------------------------------------------------------------
(* Bounds of the model *)

MaxSetups == 2      \* setup() calls on one controller
MaxSessions == 2    \* browser sessions of one server process
MaxProbes == 3      \* get_controller() calls in one process
MaxTime == 8        \* clock ticks (100 us each) after the settle wait
MaxEdges == 2       \* echo-pin transitions during one measurement

(* Program constants *)

LED_PIN == 12
BTN_PIN == 25
TRIG_PIN == 22
ECHO_PIN == 27
R_PIN == 18
G_PIN == 23
B_PIN == 24
SpeedFactor == 17150        \* cm per second, half the speed of sound
SettleTicks == 5000         \* time.sleep(0.5) in ticks of 100 us
MockBaseDistance == 80

CtrlIds == 1..MaxProbes
Sessions == 1..MaxSessions
PlaceholderPath == "assets/placeholder.jpg"
SnapshotPath == "snapshot.jpg"

(* Inputs the callers and the hardware draw from *)
Levels == {0, 37, 100}
SliderLevels == {37}        \* the dashboard's slider, as the script runs draw it
Colors == {<<255, 255, 255>>, <<255, 128, 0>>}
FailPoints == {0, 151, 155, 164}    \* source line of setup() that raises; 0: none
CamOutcomes == {"ok", "ctor_raises", "configure_raises", "not_started"}
NoiseSamples == {-150, -145, -4, 0, 5, 96, 149}    \* uniform(-1.5, 1.5), in hundredths
ImportOutcomes == {"ok", "ImportError", "RuntimeError", "OSError"}

----------------------------------------------------------------------------
(* Objects.  A GPIO.PWM object is [st, dc]: running or stopped, with its   *)
(* duty cycle in units of 1/255 percent, so that r / 255.0 * 100 is the    *)
(* integer r * 100.  A Picamera2 object is its state: "open" once          *)
(* constructed, "running" once started, "stopped".  Each object is         *)
(* referred to by one controller field at most, so a field holds the       *)
(* object itself; an object whose field is overwritten while it is live    *)
(* is counted in orphans, since no code can reach it to stop it.           *)

None == [st |-> "None", dc |-> 0]
NoCamera == "None"

NoCtrl == [kind |-> "none"]

\* MockController.__init__
Mock__init__ ==
    [kind |-> "Mock",
     room_light_state |-> FALSE,
     dimmable_light_brightness |-> 100,
     mood_lamp_color |-> <<255, 255, 255>>,
     doorbell_pressed |-> FALSE]

\* RaspberryPiController.__init__ after the imports succeeded
RPi__init__ ==
    [kind |-> "RPi",
     pwm_led |-> None, pwm_r |-> None, pwm_g |-> None, pwm_b |-> None,
     picam2 |-> NoCamera]

NoOrphans == [pwm |-> 0, camOpen |-> 0, camRunning |-> 0]

\* The part of the state one controller call reads and writes.
World(id) ==
    [c |-> ctrls[id], pins |-> pins, orphans |-> orphans, files |-> files,
     out |-> "ok", ret |-> "None"]

\* Python's True and False as return values
PyBool(b) == IF b THEN "True" ELSE "False"

Raise(w, exc) == [w EXCEPT !.out = exc, !.ret = "None"]
Return(w, v) == [w EXCEPT !.out = "ok", !.ret = v]
\* A call that never returns (a busy-wait that does not end)
Hang(w) == [w EXCEPT !.out = "hang", !.ret = "None"]

\* GPIO.PWM(pin, freq) followed by .start(0): a new generator, running at 0%
PwmStart == [st |-> "running", dc |-> 0]

\* pwm.ChangeDutyCycle(dc255 / 255)
ChangeDutyCycle(p, dc255) == [p EXCEPT !.dc = dc255]

\* pwm.stop()
PwmStop(p) == [p EXCEPT !.st = "stopped"]

\* The PWM object old loses its last reference.
DropPwm(w, old) ==
    IF old.st = "running" THEN [w EXCEPT !.orphans.pwm = @ + 1] ELSE w

\* The Picamera2 object old loses its last reference.
DropCamera(w, old) ==
    CASE old = "running" -> [w EXCEPT !.orphans.camRunning = @ + 1]
      [] old = "open" -> [w EXCEPT !.orphans.camOpen = @ + 1]
      [] OTHER -> w

----------------------------------------------------------------------------
(* RaspberryPiController.setup                                             *)

\* Lines 146-168: pin directions, the four PWM generators, the input pins.
\* failAt is the line at which the GPIO library raises (0: it does not);
\* everything before that line has taken effect.  Each field is assigned a
\* new object whatever it held before.
setup_gpio(w, failAt) ==
    LET w1 == [w EXCEPT !.pins = @ \cup {LED_PIN}]
        w2 == [DropPwm(w1, w1.c.pwm_led) EXCEPT !.c.pwm_led = PwmStart]
        w3 == [w2 EXCEPT !.pins = @ \cup {R_PIN, G_PIN, B_PIN}]
        w4 == [DropPwm(DropPwm(DropPwm(w3, w3.c.pwm_r), w3.c.pwm_g), w3.c.pwm_b)
                 EXCEPT !.c.pwm_r = PwmStart, !.c.pwm_g = PwmStart, !.c.pwm_b = PwmStart]
        w5 == [w4 EXCEPT !.pins = @ \cup {BTN_PIN, TRIG_PIN, ECHO_PIN}]
    IN  CASE failAt = 151 -> Raise(w1, "RuntimeError")
          [] failAt = 155 -> Raise(w2, "RuntimeError")
          [] failAt = 164 -> Raise(w4, "RuntimeError")
          [] OTHER -> w5

\* setup's camera part with lines 182 and 186 left out: after a failure
\* picam2 keeps the half-initialised object.
setup_camera_keeps_object(w, camOutcome) ==
    CASE camOutcome = "ok" ->
            [DropCamera(w, w.c.picam2) EXCEPT !.c.picam2 = "running"]
      [] camOutcome = "ctor_raises" -> w
      [] OTHER -> [DropCamera(w, w.c.picam2) EXCEPT !.c.picam2 = "open"]

\* Lines 170-186: the camera.  Line 173 assigns a new Picamera2 to picam2
\* unless the constructor raises; every failure is caught and sets picam2
\* to None, without stopping or closing the object the constructor made.
setup_camera(w, camOutcome) ==
    CASE camOutcome = "ok" ->
            [DropCamera(w, w.c.picam2) EXCEPT !.c.picam2 = "running"]
      [] camOutcome = "ctor_raises" ->
            [DropCamera(w, w.c.picam2) EXCEPT !.c.picam2 = NoCamera]
      [] OTHER ->   \* "configure_raises", or "not_started": .started is False
            [DropCamera(DropCamera(w, w.c.picam2), "open") EXCEPT !.c.picam2 = NoCamera]

\* Lines 144-188.
RPi_setup(w, failAt, camOutcome) ==
    LET w1 == setup_gpio(w, failAt)
    IN  IF w1.out # "ok" THEN w1
        ELSE Return(setup_camera(w1, camOutcome), "None")

----------------------------------------------------------------------------
(* RaspberryPiController device operations                                 *)

\* Lines 190-195.
RPi_set_room_light(w, state) ==
    LET brightness == IF state THEN 100 ELSE 0
    IN  IF w.c.pwm_led = None THEN Raise(w, "AttributeError")
        ELSE Return([w EXCEPT !.c.pwm_led = ChangeDutyCycle(@, brightness * 255)], "None")

\* set_dimmable_light driving the red channel's generator in place of the LED's.
RPi_set_dimmable_light_red(w, brightness) ==
    IF w.c.pwm_r = None THEN Raise(w, "AttributeError")
    ELSE Return([w EXCEPT !.c.pwm_r = ChangeDutyCycle(@, brightness * 255)], "None")

\* Lines 197-199.
RPi_set_dimmable_light(w, brightness) ==
    IF w.c.pwm_led = None THEN Raise(w, "AttributeError")
    ELSE Return([w EXCEPT !.c.pwm_led = ChangeDutyCycle(@, brightness * 255)], "None")

\* set_mood_lamp_color without the conversion: each channel value is passed
\* to ChangeDutyCycle as if it were a percentage.
RPi_set_mood_lamp_color_unscaled(w, r, g, b) ==
    IF w.c.pwm_r = None THEN Raise(w, "AttributeError")
    ELSE LET w1 == [w EXCEPT !.c.pwm_r = ChangeDutyCycle(@, r * 255)]
    IN  IF w.c.pwm_g = None THEN Raise(w1, "AttributeError")
    ELSE LET w2 == [w1 EXCEPT !.c.pwm_g = ChangeDutyCycle(@, g * 255)]
    IN  IF w.c.pwm_b = None THEN Raise(w2, "AttributeError")
    ELSE Return([w2 EXCEPT !.c.pwm_b = ChangeDutyCycle(@, b * 255)], "None")

\* Lines 201-206: three calls in turn; one that raises leaves the earlier ones done.
RPi_set_mood_lamp_color(w, r, g, b) ==
    IF w.c.pwm_r = None THEN Raise(w, "AttributeError")
    ELSE LET w1 == [w EXCEPT !.c.pwm_r = ChangeDutyCycle(@, r * 100)]
    IN  IF w.c.pwm_g = None THEN Raise(w1, "AttributeError")
    ELSE LET w2 == [w1 EXCEPT !.c.pwm_g = ChangeDutyCycle(@, g * 100)]
    IN  IF w.c.pwm_b = None THEN Raise(w2, "AttributeError")
    ELSE Return([w2 EXCEPT !.c.pwm_b = ChangeDutyCycle(@, b * 100)], "None")

\* Lines 208-210: level is what the pin reads (0: LOW).  GPIO.input raises
\* RuntimeError on a channel that was never set up.
RPi_read_doorbell(w, level) ==
    IF BTN_PIN \notin w.pins THEN Raise(w, "RuntimeError")
    ELSE Return(w, PyBool(level = 0))

\* Line 232: self.picam2.capture_file(output_path).  On None the attribute
\* lookup raises; a session that is not running, or a capture that fails
\* (captureFails), raises too; otherwise the file is written.
capture_file(w, output_path, captureFails) ==
    IF w.c.picam2 = NoCamera THEN Raise(w, "AttributeError")
    ELSE IF captureFails \/ w.c.picam2 # "running" THEN Raise(w, "RuntimeError")
    ELSE Return([w EXCEPT !.files = @ \cup {output_path}], "None")

\* capture_image without its try/except: what line 232 raises reaches the caller.
RPi_capture_image_uncaught(w, output_path, captureFails) ==
    LET r == capture_file(w, output_path, captureFails)
    IN  IF r.out = "ok" THEN Return(r, output_path) ELSE r

\* Lines 230-237: whatever line 232 raises is caught and turned into None.
RPi_capture_image(w, output_path, captureFails) ==
    LET r == capture_file(w, output_path, captureFails)
    IN  IF r.out = "ok" THEN Return(r, output_path) ELSE Return(r, "None")

\* Lines 212-228 seen from the caller (DistSpec below runs the measurement
\* step by step): GPIO.output raises RuntimeError on a trigger pin that was
\* never set up; otherwise the call returns a distance (in 0.01 cm), raises
\* UnboundLocalError, or never returns, as the echo pin decides.
RPi_get_distance(w, echoOutcome, d) ==
    IF TRIG_PIN \notin w.pins THEN Raise(w, "RuntimeError")
    ELSE IF echoOutcome = "raise" THEN Raise(w, "UnboundLocalError")
    ELSE IF echoOutcome = "hang" THEN Hang(w)
    ELSE Return(w, d)

\* Lines 239-247: no call is guarded; the first one made on None raises
\* AttributeError and the rest of cleanup is not run.
RPi_cleanup(w) ==
    IF w.c.pwm_led = None THEN Raise(w, "AttributeError")
    ELSE LET w1 == [w EXCEPT !.c.pwm_led = PwmStop(@)]
    IN  IF w.c.pwm_r = None THEN Raise(w1, "AttributeError")
    ELSE LET w2 == [w1 EXCEPT !.c.pwm_r = PwmStop(@)]
    IN  IF w.c.pwm_g = None THEN Raise(w2, "AttributeError")
    ELSE LET w3 == [w2 EXCEPT !.c.pwm_g = PwmStop(@)]
    IN  IF w.c.pwm_b = None THEN Raise(w3, "AttributeError")
    ELSE LET w4 == [w3 EXCEPT !.c.pwm_b = PwmStop(@)]
             w5 == [w4 EXCEPT !.pins = {}]
    IN  IF w.c.picam2 = NoCamera THEN Raise(w5, "AttributeError")
    ELSE Return([w5 EXCEPT !.c.picam2 = "stopped"], "None")

----------------------------------------------------------------------------
(* MockController                                                          *)

\* Lines 53-55.
Mock_setup(w) == Return(w, "None")

\* set_room_light written as on the Raspberry Pi, where the room light and
\* the dimmable light share one channel: the level is overwritten too.
Mock_set_room_light_shared(w, state) ==
    Return([w EXCEPT !.c.room_light_state = state,
                     !.c.dimmable_light_brightness = IF state THEN 100 ELSE 0], "None")

\* Lines 57-60.
Mock_set_room_light(w, state) ==
    Return([w EXCEPT !.c.room_light_state = state], "None")

\* Lines 62-64.
Mock_set_dimmable_light(w, brightness) ==
    Return([w EXCEPT !.c.dimmable_light_brightness = brightness], "None")

\* Lines 66-68.
Mock_set_mood_lamp_color(w, r, g, b) ==
    Return([w EXCEPT !.c.mood_lamp_color = <<r, g, b>>], "None")

\* Lines 70-73.
Mock_read_doorbell(w) == Return(w, PyBool(w.c.doorbell_pressed))

\* get_distance with the noise scaled by two: uniform(-3, 3).
Mock_get_distance_wide(w, noise10) == Return(w, MockBaseDistance * 10 + 2 * noise10)

\* Lines 75-79: noise10 is the sampled noise, in tenths after rounding.
Mock_get_distance(w, noise10) == Return(w, MockBaseDistance * 10 + noise10)

\* capture_image doing what its comment says a real app should: the
\* placeholder is copied to output_path, which is returned.
Mock_capture_image_copies(w, output_path) ==
    IF PlaceholderPath \in w.files
    THEN Return([w EXCEPT !.files = @ \cup {output_path}], output_path)
    ELSE Return(w, "None")

\* Lines 81-90.
Mock_capture_image(w, output_path) ==
    IF PlaceholderPath \in w.files THEN Return(w, PlaceholderPath)
    ELSE Return(w, "None")

\* Lines 92-94.
Mock_cleanup(w) == Return(w, "None")

----------------------------------------------------------------------------
(* Dispatch on the controller's class (BaseController's interface)         *)

IsRPi(w) == w.c.kind = "RPi"

setup(w, failAt, camOutcome) ==
    IF IsRPi(w) THEN RPi_setup(w, failAt, camOutcome) ELSE Mock_setup(w)

set_room_light(w, state) ==
    IF IsRPi(w) THEN RPi_set_room_light(w, state) ELSE Mock_set_room_light(w, state)

set_dimmable_light(w, brightness) ==
    IF IsRPi(w) THEN RPi_set_dimmable_light(w, brightness)
    ELSE Mock_set_dimmable_light(w, brightness)

set_mood_lamp_color(w, color) ==
    IF IsRPi(w) THEN RPi_set_mood_lamp_color(w, color[1], color[2], color[3])
    ELSE Mock_set_mood_lamp_color(w, color[1], color[2], color[3])

read_doorbell(w, level) ==
    IF IsRPi(w) THEN RPi_read_doorbell(w, level) ELSE Mock_read_doorbell(w)

get_distance(w, echoOutcome, d, noise10) ==
    IF IsRPi(w) THEN RPi_get_distance(w, echoOutcome, d) ELSE Mock_get_distance(w, noise10)

capture_image(w, output_path, captureFails) ==
    IF IsRPi(w) THEN RPi_capture_image(w, output_path, captureFails)
    ELSE Mock_capture_image(w, output_path)

cleanup(w) == IF IsRPi(w) THEN RPi_cleanup(w) ELSE Mock_cleanup(w)

----------------------------------------------------------------------------
(* State shared by the specifications                                      *)

DeviceOps == {"set_room_light", "set_dimmable_light", "set_mood_lamp_color",
              "read_doorbell", "get_distance", "capture_image"}

NoCall == [id |-> 0, op |-> "none", out |-> "ok", ret |-> "None", a |-> <<>>,
           warned |-> FALSE]

\* History of one controller: setup() calls made and completed, whether a
\* device operation was invoked before any setup() completed, cleanup()
\* calls (counted to 2), and the current run of consecutive setup() calls
\* that each returned with the camera started.  The dashboard's claims read
\* early and cleanups, the interface's claims read streak; each
\* specification keeps the fields its claims read.
NoHist == [setups |-> 0, done |-> 0, early |-> FALSE, cleanups |-> 0, streak |-> 0]

Min(a, b) == IF a < b THEN a ELSE b

HistAfter(h, op, r, dash) ==
    [setups   |-> IF op = "setup" THEN h.setups + 1 ELSE h.setups,
     done     |-> IF op = "setup" /\ r.out = "ok" THEN h.done + 1 ELSE h.done,
     early    |-> dash /\ (h.early \/ (op \in DeviceOps /\ h.done = 0)),
     cleanups |-> IF dash /\ op = "cleanup" THEN Min(2, h.cleanups + 1) ELSE h.cleanups,
     streak   |-> IF ~dash /\ op = "setup" /\ r.out = "ok" /\ r.c.kind = "RPi"
                     /\ r.c.picam2 # NoCamera
                  THEN h.streak + 1 ELSE 0]

\* The state after controller id's call of op with arguments a gave result r.
Apply(id, op, a, r, dash) ==
    /\ ctrls' = [ctrls EXCEPT ![id] = r.c]
    /\ pins' = r.pins
    /\ orphans' = r.orphans
    /\ files' = r.files
    /\ last' = [id |-> id, op |-> op, out |-> r.out, ret |-> r.ret, a |-> a,
                warned |-> FALSE]
    /\ hist' = [hist EXCEPT ![id] = HistAfter(@, op, r, dash)]

\* No measurement in progress; -1 stands for a local variable not yet bound
\* and for an echo edge not yet seen.  after counts the echo edges since
\* line 218 drove the trigger low.
NoDist == [pc |-> "idle", now |-> 0, trig |-> 0, echo |-> 0, edges |-> 0,
           after |-> 0, first |-> -1, pulse_start |-> -1, pulse_end |-> -1,
           t_rise |-> -1, t_fall |-> -1, out |-> "ok", ret |-> 0]

HwInit ==
    /\ pins = {}
    /\ orphans = NoOrphans
    /\ files = {PlaceholderPath}
    /\ last = NoCall
    /\ hist = [i \in CtrlIds |-> NoHist]

----------------------------------------------------------------------------
(* CtrlSpec: one controller, constructed, then called through its          *)
(* interface in any order, with the hardware answering as it may.          *)

CtrlInit ==
    /\ HwInit
    /\ \E c \in {RPi__init__, Mock__init__} :
          ctrls = [i \in CtrlIds |-> IF i = 1 THEN c ELSE NoCtrl]
    /\ session_state = [s \in Sessions |-> 0]
    /\ pc = [s \in Sessions |-> "idle"]
    /\ proc = [machine |-> <<>>, probes |-> 0, constructed |-> 1, exited |-> FALSE]
    /\ dist = NoDist

DashUnchanged == UNCHANGED <<session_state, pc, proc, dist>>

\* The caller is free to make a call: its last one did not hang.
Returned == last.out # "hang"

C_setup ==
    /\ Returned
    /\ hist[1].setups < MaxSetups
    /\ \E failAt \in FailPoints, camOutcome \in CamOutcomes :
          /\ (failAt # 0 => camOutcome = "ok")
          /\ (~IsRPi(World(1)) => failAt = 0 /\ camOutcome = "ok")
          /\ Apply(1, "setup", <<failAt, camOutcome>>, setup(World(1), failAt, camOutcome), FALSE)
    /\ DashUnchanged

C_set_room_light ==
    /\ Returned
    /\ \E state \in BOOLEAN :
          Apply(1, "set_room_light", <<state>>, set_room_light(World(1), state), FALSE)
    /\ DashUnchanged

C_set_dimmable_light ==
    /\ Returned
    /\ \E brightness \in Levels :
          Apply(1, "set_dimmable_light", <<brightness>>,
                set_dimmable_light(World(1), brightness), FALSE)
    /\ DashUnchanged

C_set_mood_lamp_color ==
    /\ Returned
    /\ \E color \in Colors :
          Apply(1, "set_mood_lamp_color", color, set_mood_lamp_color(World(1), color), FALSE)
    /\ DashUnchanged

C_read_doorbell ==
    /\ Returned
    /\ \E level \in {0, 1} :
          /\ (~IsRPi(World(1)) => level = 1)
          /\ Apply(1, "read_doorbell", <<>>, read_doorbell(World(1), level), FALSE)
    /\ DashUnchanged

\* round(x, 1), for x given in hundredths: as Round2, a decimal tie goes
\* either way.
Round1(x) ==
    LET q == x \div 10
        rem == x % 10
    IN  IF rem < 5 THEN {q} ELSE IF rem > 5 THEN {q + 1} ELSE {q, q + 1}

\* A RaspberryPiController's call returns 8.58 cm, raises or hangs, as the
\* echo pin decides; a MockController's call samples noise (in hundredths)
\* and rounds.
C_get_distance ==
    /\ Returned
    /\ \E echoOutcome \in {"return", "raise", "hang"}, noise \in NoiseSamples :
          \E noise10 \in Round1(noise) :
             /\ (IsRPi(World(1)) => noise = 0)
             /\ (~IsRPi(World(1)) => echoOutcome = "return")
             /\ Apply(1, "get_distance", <<>>,
                      get_distance(World(1), echoOutcome, 858, noise10), FALSE)
    /\ DashUnchanged

C_capture_image ==
    /\ Returned
    /\ \E captureFails \in BOOLEAN :
          /\ (~IsRPi(World(1)) => ~captureFails)
          /\ Apply(1, "capture_image", <<captureFails, PlaceholderPath \in files>>,
                   capture_image(World(1), SnapshotPath, captureFails), FALSE)
    /\ DashUnchanged

C_cleanup ==
    /\ Returned
    /\ Apply(1, "cleanup", <<>>, cleanup(World(1)), FALSE)
    /\ DashUnchanged

\* The placeholder image is put on disk or removed from it.  MockController
\* alone reads it.
TogglePlaceholder ==
    /\ Returned
    /\ ctrls[1].kind = "Mock"
    /\ files' = IF PlaceholderPath \in files THEN files \ {PlaceholderPath}
                ELSE files \cup {PlaceholderPath}
    /\ UNCHANGED <<ctrls, pins, orphans, last, hist>>
    /\ DashUnchanged

\* Home_Dashboard.py line 92, the only writer of _doorbell_pressed.
ToggleDoorbell ==
    /\ Returned
    /\ ctrls[1].kind = "Mock"
    /\ ctrls' = [ctrls EXCEPT ![1].doorbell_pressed = ~@]
    /\ UNCHANGED <<pins, orphans, files, last, hist>>
    /\ DashUnchanged

CtrlNext ==
    \/ C_setup
    \/ C_set_room_light
    \/ C_set_dimmable_light
    \/ C_set_mood_lamp_color
    \/ C_read_doorbell
    \/ C_get_distance
    \/ C_capture_image
    \/ C_cleanup
    \/ TogglePlaceholder
    \/ ToggleDoorbell

CtrlSpec == CtrlInit /\ [][CtrlNext]_vars

----------------------------------------------------------------------------
(* Home_Dashboard.py: the selector                                         *)

\* platform.machine() values, as sequences of characters
Armv7l == <<"a", "r", "m", "v", "7", "l">>
Aarch64 == <<"a", "a", "r", "c", "h", "6", "4">>
X86_64 == <<"x", "8", "6", "_", "6", "4">>
Machines == {Armv7l, Aarch64, X86_64}

\* str.startswith
StartsWith(str, prefix) ==
    /\ Len(str) >= Len(prefix)
    /\ SubSeq(str, 1, Len(prefix)) = prefix

\* hardware_controller.py lines 111-142: RaspberryPiController().  imp is what
\* the two imports do; the except clause prints and re-raises.
RaspberryPiController(imp) ==
    IF imp = "ok" THEN [out |-> "ok", c |-> RPi__init__, warned |-> FALSE]
    ELSE [out |-> imp, c |-> NoCtrl, warned |-> FALSE]

\* Lines 16-31.
get_controller(machine, imp) ==
    LET is_pi == StartsWith(machine, <<"a", "r", "m">>)
                 \/ StartsWith(machine, <<"a", "a", "r", "c", "h", "6", "4">>)
        made == RaspberryPiController(imp)
    IN  IF is_pi
        THEN IF made.out = "ok" THEN made
             ELSE IF made.out \in {"ImportError", "RuntimeError"}
                  THEN [out |-> "ok", c |-> Mock__init__, warned |-> TRUE]
                  ELSE made
        ELSE [out |-> "ok", c |-> Mock__init__, warned |-> FALSE]

----------------------------------------------------------------------------
(* Spec: one server process.  Each session runs the script from the top on *)
(* every interaction; a call that raises ends that run of the script.      *)

Init ==
    /\ HwInit
    /\ ctrls = [i \in CtrlIds |-> NoCtrl]
    /\ session_state = [s \in Sessions |-> 0]
    /\ pc = [s \in Sessions |-> "idle"]
    /\ \E m \in Machines :
          proc = [machine |-> m, probes |-> 0, constructed |-> 0, exited |-> FALSE]
    /\ dist = NoDist

Goto(s, label) == pc' = [pc EXCEPT ![s] = label]

\* Lines 36-37, the key is absent: the selector runs and its result is stored.
ScriptSelect(s) ==
    /\ ~proc.exited /\ pc[s] = "idle" /\ session_state[s] = 0
    /\ proc.probes < MaxProbes
    /\ \E imp \in ImportOutcomes :
          LET r == get_controller(proc.machine, imp)
              id == proc.constructed + 1
          IN  /\ (r.c.kind # "RPi" /\ r.out = "ok" /\ ~r.warned => imp = "ok")
              /\ last' = [id |-> IF r.out = "ok" THEN id ELSE 0, op |-> "get_controller",
                          out |-> r.out, ret |-> r.c.kind, a |-> <<imp>>,
                          warned |-> r.warned]
              /\ IF r.out = "ok"
                 THEN /\ ctrls' = [ctrls EXCEPT ![id] = r.c]
                      /\ session_state' = [session_state EXCEPT ![s] = id]
                      /\ proc' = [proc EXCEPT !.probes = @ + 1, !.constructed = id]
                      /\ Goto(s, "setup")
                 ELSE /\ proc' = [proc EXCEPT !.probes = @ + 1]
                      /\ UNCHANGED <<ctrls, session_state, pc>>
    /\ UNCHANGED <<pins, orphans, files, hist, dist>>

\* Line 36, the key is present: lines 37-38 are skipped.
ScriptCached(s) ==
    /\ ~proc.exited /\ pc[s] = "idle" /\ session_state[s] # 0
    /\ Goto(s, "dimmable")
    /\ UNCHANGED <<ctrls, pins, orphans, files, last, hist, session_state, proc, dist>>

\* A call made by the script of session s; onward is where the script goes
\* when the call returns.
ScriptCall(s, op, a, r, onward) ==
    /\ Apply(session_state[s], op, a, r, TRUE)
    /\ Goto(s, CASE r.out = "ok" -> onward [] r.out = "hang" -> "hung" [] OTHER -> "idle")
    /\ UNCHANGED <<session_state, proc, dist>>

\* Line 38.
ScriptSetup(s) ==
    /\ ~proc.exited /\ pc[s] = "setup"
    /\ \E failAt \in FailPoints, camOutcome \in CamOutcomes :
          LET w == World(session_state[s])
          IN  /\ (failAt # 0 => camOutcome = "ok")
              /\ (~IsRPi(w) => failAt = 0 /\ camOutcome = "ok")
              /\ ScriptCall(s, "setup", <<failAt, camOutcome>>,
                            setup(w, failAt, camOutcome), "dimmable")

\* Lines 66-67.
ScriptDimmable(s) ==
    /\ ~proc.exited /\ pc[s] = "dimmable"
    /\ \E brightness \in SliderLevels :
          ScriptCall(s, "set_dimmable_light", <<>>,
                     set_dimmable_light(World(session_state[s]), brightness), "mood")

\* Lines 74-76.
ScriptMood(s) ==
    /\ ~proc.exited /\ pc[s] = "mood"
    /\ \E color \in Colors :
          ScriptCall(s, "set_mood_lamp_color", <<>>,
                     set_mood_lamp_color(World(session_state[s]), color), "doorbell")

\* Lines 88-93: the simulated doorbell is pressed; the flag is toggled and
\* st.rerun() ends this run.
ScriptToggleDoorbell(s) ==
    /\ ~proc.exited /\ pc[s] = "doorbell"
    /\ ctrls[session_state[s]].kind = "Mock"
    /\ ctrls' = [ctrls EXCEPT ![session_state[s]].doorbell_pressed = ~@]
    /\ Goto(s, "idle")
    /\ UNCHANGED <<pins, orphans, files, last, hist, session_state, proc, dist>>

\* Line 95.
ScriptDoorbell(s) ==
    /\ ~proc.exited /\ pc[s] = "doorbell"
    /\ \E level \in {0, 1} :
          LET w == World(session_state[s])
          IN  /\ (~IsRPi(w) => level = 1)
              /\ ScriptCall(s, "read_doorbell", <<>>, read_doorbell(w, level), "distance")

\* Line 103.
ScriptDistance(s) ==
    /\ ~proc.exited /\ pc[s] = "distance"
    /\ \E echoOutcome \in {"return", "raise", "hang"}, noise10 \in {-15, 0, 15} :
          LET w == World(session_state[s])
          IN  /\ (IsRPi(w) => noise10 = 0)
              /\ (~IsRPi(w) => echoOutcome = "return")
              /\ ScriptCall(s, "get_distance", <<>>,
                            get_distance(w, echoOutcome, 858, noise10), "camera")

\* Lines 123-136: the snapshot button was pressed (snap) or not.
ScriptCamera(s) ==
    /\ ~proc.exited /\ pc[s] = "camera"
    /\ \/ \E captureFails \in BOOLEAN :
             LET w == World(session_state[s])
             IN  /\ (~IsRPi(w) => ~captureFails)
                 /\ ScriptCall(s, "capture_image", <<captureFails, PlaceholderPath \in files>>,
                               capture_image(w, SnapshotPath, captureFails), "idle")
       \/ /\ Goto(s, "idle")
          /\ UNCHANGED <<ctrls, pins, orphans, files, last, hist, session_state, proc, dist>>

\* The server process ends.  Lines 138-139 only show a sidebar message: the
\* script registers no exit handler and calls cleanup() nowhere.
ProcessExit ==
    /\ ~proc.exited
    /\ proc' = [proc EXCEPT !.exited = TRUE]
    /\ UNCHANGED <<ctrls, pins, orphans, files, last, hist, session_state, pc, dist>>

Next ==
    \/ \E s \in Sessions :
          \/ ScriptSelect(s)
          \/ ScriptCached(s)
          \/ ScriptSetup(s)
          \/ ScriptDimmable(s)
          \/ ScriptMood(s)
          \/ ScriptToggleDoorbell(s)
          \/ ScriptDoorbell(s)
          \/ ScriptDistance(s)
          \/ ScriptCamera(s)
    \/ ProcessExit

Spec == Init /\ [][Next]_vars

----------------------------------------------------------------------------
(* DistSpec: one call of RaspberryPiController.get_distance(), made by the  *)
(* script of session 1 on a controller that was set up, run line by line   *)
(* against an echo pin that changes when it will and a clock that advances *)
(* when it will.  The clock counts ticks of 100 us; a distance is in units *)
(* of 0.01 cm.                                                             *)

\* round(x, 2), for x given in units of 0.0001 cm.  The program rounds a
\* binary double; where the decimal value is an exact tie the double lies on
\* either side of it, as its rounding error falls, so both neighbours are
\* results the call can give.
Round2(x) ==
    LET q == x \div 100
        rem == x % 100
    IN  IF rem < 50 THEN {q} ELSE IF rem > 50 THEN {q + 1} ELSE {q, q + 1}

\* Lines 226-227, for timestamps in ticks: the distance in units of 0.0001 cm
Distance(pulse_start, pulse_end) == (pulse_end - pulse_start) * SpeedFactor

DistInit ==
    /\ LET w0 == [c |-> RPi__init__, pins |-> {}, orphans |-> NoOrphans,
                  files |-> {PlaceholderPath}, out |-> "ok", ret |-> "None"]
           w == RPi_setup(w0, 0, "ok")
       IN  /\ ctrls = [i \in CtrlIds |-> IF i = 1 THEN w.c ELSE NoCtrl]
           /\ pins = w.pins
           /\ orphans = w.orphans
           /\ files = w.files
    /\ last = NoCall
    /\ hist = [i \in CtrlIds |->
                 IF i = 1 THEN [NoHist EXCEPT !.setups = 1, !.done = 1] ELSE NoHist]
    /\ session_state = [s \in Sessions |-> IF s = 1 THEN 1 ELSE 0]
    /\ pc = [s \in Sessions |-> IF s = 1 THEN "distance" ELSE "idle"]
    /\ proc = [machine |-> <<>>, probes |-> 0, constructed |-> 1, exited |-> FALSE]
    /\ \E e \in {0, 1}, t \in {0, 1} : dist = [NoDist EXCEPT !.echo = e, !.trig = t]

DistUnchanged ==
    UNCHANGED <<ctrls, pins, orphans, files, last, hist, session_state, pc, proc>>

\* Lines 213-214: trigger low, then the settle wait.
D_Settle ==
    /\ dist.pc = "idle"
    /\ dist' = IF TRIG_PIN \notin pins
               THEN [dist EXCEPT !.pc = "done", !.out = "RuntimeError"]
               ELSE [dist EXCEPT !.pc = "settled", !.trig = 0, !.now = @ + SettleTicks]
    /\ DistUnchanged

\* Lines 216-217: trigger high, held for 10 us (less than one tick).
D_TriggerHigh ==
    /\ dist.pc = "settled"
    /\ dist' = [dist EXCEPT !.pc = "pulsing", !.trig = 1]
    /\ DistUnchanged

\* Line 218 left out: polling starts with the trigger still high.
D_TriggerLow_skipped ==
    /\ dist.pc = "pulsing"
    /\ dist' = [dist EXCEPT !.pc = "wait_high"]
    /\ DistUnchanged

\* Line 218: trigger low.
D_TriggerLow ==
    /\ dist.pc = "pulsing"
    /\ dist' = [dist EXCEPT !.pc = "wait_high", !.trig = 0]
    /\ DistUnchanged

\* The first loop written as an if: one poll, then on to the second loop
\* whatever the pin read.
D_PollLow_once ==
    /\ dist.pc = "wait_high"
    /\ dist' = [dist EXCEPT
                  !.first = IF @ = -1 THEN dist.echo ELSE @,
                  !.pulse_start = IF dist.echo = 0 THEN dist.now ELSE @,
                  !.pc = "wait_low"]
    /\ DistUnchanged

\* Lines 220-221, one turn of the loop: the echo pin is read; while it reads
\* 0 the clock is read into pulse_start.
D_PollLow ==
    /\ dist.pc = "wait_high"
    /\ dist' = [dist EXCEPT
                  !.first = IF @ = -1 THEN dist.echo ELSE @,
                  !.pulse_start = IF dist.echo = 0 THEN dist.now ELSE @,
                  !.pc = IF dist.echo = 0 THEN "wait_high" ELSE "wait_low"]
    /\ DistUnchanged

\* Lines 223-224, one turn of the loop: while the echo pin reads 1 the clock
\* is read into pulse_end.
D_PollHigh ==
    /\ dist.pc = "wait_low"
    /\ dist' = [dist EXCEPT
                  !.pulse_end = IF dist.echo = 1 THEN dist.now ELSE @,
                  !.pc = IF dist.echo = 1 THEN "wait_low" ELSE "compute"]
    /\ DistUnchanged

\* Lines 226-228: reading a local that no loop turn bound raises
\* UnboundLocalError.
D_Compute ==
    /\ dist.pc = "compute"
    /\ IF dist.pulse_start = -1 \/ dist.pulse_end = -1
       THEN dist' = [dist EXCEPT !.pc = "done", !.out = "UnboundLocalError"]
       ELSE \E d \in Round2(Distance(dist.pulse_start, dist.pulse_end)) :
               dist' = [dist EXCEPT !.pc = "done", !.out = "ok", !.ret = d]
    /\ DistUnchanged

\* Home_Dashboard.py line 103: the call made by the script of session 1
\* returns or raises, and the script goes on or ends its run.
D_Return ==
    /\ dist.pc = "done"
    /\ LET r == RPi_get_distance(World(1), IF dist.out = "ok" THEN "return" ELSE "raise",
                                 dist.ret)
       IN  /\ Apply(1, "get_distance", <<>>, r, TRUE)
           /\ Goto(1, IF r.out = "ok" THEN "camera" ELSE "idle")
    /\ dist' = [dist EXCEPT !.pc = "returned"]
    /\ UNCHANGED <<session_state, proc>>

Measuring == dist.pc \in {"settled", "pulsing", "wait_high", "wait_low"}

\* The clock advances by one tick.
Tick ==
    /\ Measuring
    /\ dist.now < SettleTicks + MaxTime
    /\ dist' = [dist EXCEPT !.now = @ + 1]
    /\ DistUnchanged

\* The echo pin changes level.  t_rise is the time of the first rising edge
\* after a first poll that read low, t_fall the time of the falling edge
\* that follows it.
EchoEdge ==
    /\ Measuring
    /\ dist.edges < MaxEdges
    /\ dist' = [dist EXCEPT
                  !.echo = 1 - @,
                  !.edges = @ + 1,
                  !.after = IF dist.pc \in {"wait_high", "wait_low"} THEN @ + 1 ELSE @,
                  !.t_rise = IF dist.first = 0 /\ dist.echo = 0 /\ @ = -1
                             THEN dist.now ELSE @,
                  !.t_fall = IF dist.t_rise # -1 /\ dist.echo = 1 /\ @ = -1
                             THEN dist.now ELSE @]
    /\ DistUnchanged

DistNext ==
    \/ D_Settle
    \/ D_TriggerHigh
    \/ D_TriggerLow
    \/ D_PollLow
    \/ D_PollHigh
    \/ D_Compute
    \/ D_Return
    \/ Tick
    \/ EchoEdge

DistSpec == DistInit /\ [][DistNext]_vars

----------------------------------------------------------------------------
(* Claims                                                                  *)

TheCtrl == ctrls[1]
CalledOnRPi(op) == last.op = op /\ last.id # 0 /\ ctrls[last.id].kind = "RPi"

\* C1: cleanup() is safe after a failed or partial setup.  Whenever
\* cleanup() was called on a RaspberryPiController on which setup() never
\* ran, raised part-way, or ran once (also with the camera recorded as
\* absent), the call returned without raising.
C1_CleanupSafeAfterPartialSetup ==
    (CalledOnRPi("cleanup") /\ hist[1].setups <= 1) => last.out = "ok"

\* C2: capture_image never raises on either controller.  Every call
\* returns a path or None, and returns None whenever the capture failed:
\* no running camera or a failing capture call (RaspberryPiController), a
\* missing placeholder (MockController).
C2_CaptureImageNeverRaises ==
    last.op = "capture_image" =>
        /\ last.out = "ok"
        /\ last.ret \in {"None", SnapshotPath, PlaceholderPath}
        /\ LET failed == IF ctrls[last.id].kind = "RPi"
                         THEN ctrls[last.id].picam2 # "running" \/ last.a[1]
                         ELSE ~last.a[2]
           IN  failed => last.ret = "None"

\* A capture call that failed on a running camera returned None.
C2_Witness ==
    /\ CalledOnRPi("capture_image")
    /\ TheCtrl.picam2 = "running"
    /\ last.a[1]
    /\ last.ret = "None"

WithCamera(w, camera) == [w EXCEPT !.c.picam2 = camera]

\* Every call of a RaspberryPiController that does not use the camera gives,
\* from w, what it gives from w with a running camera (the camera aside).
NonCameraCallsAgree(w) ==
    LET v == WithCamera(w, "running")
        Same(r, q) == r = WithCamera(q, w.c.picam2)
    IN  /\ \A state \in BOOLEAN :
              Same(RPi_set_room_light(w, state), RPi_set_room_light(v, state))
        /\ \A brightness \in Levels :
              Same(RPi_set_dimmable_light(w, brightness),
                   RPi_set_dimmable_light(v, brightness))
        /\ \A color \in Colors :
              Same(RPi_set_mood_lamp_color(w, color[1], color[2], color[3]),
                   RPi_set_mood_lamp_color(v, color[1], color[2], color[3]))
        /\ \A level \in {0, 1} :
              Same(RPi_read_doorbell(w, level), RPi_read_doorbell(v, level))
        /\ \A echoOutcome \in {"return", "raise", "hang"} :
              Same(RPi_get_distance(w, echoOutcome, 858),
                   RPi_get_distance(v, echoOutcome, 858))

\* C5: a camera that fails to initialise is downgraded to "camera absent".
\* A setup() whose GPIO part did not raise returns normally with picam2 =
\* None when the camera constructor, configure or start failed; with picam2
\* = None every call that does not use the camera has the result and effect
\* it has with a running camera; and capture_image returns None.
C5_CameraFailureDowngraded ==
    /\ (CalledOnRPi("setup") /\ last.a[1] = 0 /\ last.a[2] # "ok")
          => (last.out = "ok" /\ ctrls[last.id].picam2 = NoCamera)
    /\ (TheCtrl.kind = "RPi" /\ TheCtrl.picam2 = NoCamera)
          => NonCameraCallsAgree(World(1))
    /\ (CalledOnRPi("capture_image") /\ ctrls[last.id].picam2 = NoCamera)
          => (last.out = "ok" /\ last.ret = "None")

\* After a setup() that completed with a failed camera, capture_image was
\* called and returned None.
C5_Witness ==
    /\ CalledOnRPi("capture_image")
    /\ hist[1].done >= 1
    /\ TheCtrl.picam2 = NoCamera
    /\ last.ret = "None"

\* C8: setup() is idempotent.  After two or more setup() calls in a row,
\* each of which returned with the camera started, the controller holds what
\* one call gives it: its four PWM generators and its camera session are
\* running and no PWM generator or camera session of an earlier call is
\* still live and unreferenced.
C8_SetupIdempotent ==
    (CalledOnRPi("setup") /\ hist[1].streak >= 2) =>
        /\ last.out = "ok"
        /\ \A p \in {TheCtrl.pwm_led, TheCtrl.pwm_r, TheCtrl.pwm_g, TheCtrl.pwm_b} :
              p.st = "running"
        /\ TheCtrl.picam2 = "running"
        /\ orphans = NoOrphans

\* C9: after setup() followed by cleanup() no resource is still held.  Once
\* cleanup() was called on a controller whose one setup() call completed,
\* all four PWM generators are stopped, no pin is claimed, and no camera
\* object made by setup() is left unstopped, also when the camera failed
\* after its object was made.
C9_CleanupReleasesAll ==
    (CalledOnRPi("cleanup") /\ hist[1].setups = 1 /\ hist[1].done = 1) =>
        /\ \A p \in {TheCtrl.pwm_led, TheCtrl.pwm_r, TheCtrl.pwm_g, TheCtrl.pwm_b} :
              p.st = "stopped"
        /\ pins = {}
        /\ TheCtrl.picam2 \in {NoCamera, "stopped"}
        /\ orphans = NoOrphans

\* C3: setup() is called once and completes before any device operation.
\* No controller has had setup() called twice, and no device operation was
\* invoked on a controller before a setup() call on it completed.
C3_SetupCompletesBeforeOperations ==
    \A id \in CtrlIds : hist[id].setups <= 1 /\ ~hist[id].early

\* C4: cleanup() is called exactly once on every exit path.  Once the
\* process has ended, cleanup() has been called exactly once on every
\* controller it constructed.
C4_CleanupOnceAtExit ==
    proc.exited => \A id \in 1..proc.constructed : hist[id].cleanups = 1

\* C6: on an ARM-family platform any failure to construct the
\* RaspberryPiController makes get_controller() return a MockController
\* with a warning, and never raises.
C6_ConstructionFailureFallsBack ==
    (last.op = "get_controller" /\ proc.machine \in {Armv7l, Aarch64} /\ last.a[1] # "ok")
        => (last.out = "ok" /\ last.ret = "Mock" /\ last.warned)

\* C7: over all reruns and sessions of one process the selector runs at most
\* once and exactly one controller is ever constructed and set up.
C7_OneControllerPerProcess ==
    /\ proc.probes <= 1
    /\ proc.constructed <= 1
    /\ \A i, j \in CtrlIds : (hist[i].setups > 0 /\ hist[j].setups > 0) => i = j

\* C10: for an echo pin that is low at the first poll, then rises, then
\* falls, get_distance() returns (t_fall - t_rise) * 17150 rounded to two
\* decimals, t_rise and t_fall being the times of the two edges.
C10_DistanceFromEdgeTimes ==
    (dist.pc = "done" /\ dist.first = 0 /\ dist.t_rise # -1 /\ dist.t_fall # -1)
        => (dist.out = "ok" /\ dist.ret \in Round2(Distance(dist.t_rise, dist.t_fall)))

\* C11: if the echo pin makes no transition after the trigger pulse, the
\* call of get_distance() neither returns nor raises: it is still in one of
\* its two polling loops, and the script that called it is still at that
\* call, so that no later operation of the run has been reached.
C11_NoEchoEdgeNeverReturns ==
    (dist.after = 0 /\ dist.pc \notin {"idle", "settled", "pulsing"}) =>
        /\ dist.pc \in {"wait_high", "wait_low"}
        /\ dist.pc = "wait_high" => dist.first \in {-1, 0} /\ dist.pulse_end = -1
        /\ dist.pc = "wait_low" => dist.first = 1 /\ dist.echo = 1
        /\ pc[1] = "distance"
        /\ last = NoCall

\* The echo pin was high throughout: the second loop is still polling,
\* three ticks and more after the trigger pulse.
C11_Witness ==
    /\ dist.pc = "wait_low"
    /\ dist.after = 0
    /\ dist.first = 1
    /\ dist.pulse_end >= SettleTicks + 3

\* Channel values the colour claims are evaluated at
ChannelValues == {0, 128, 255}

\* A duty cycle in units of 1/255 percent, rounded to tenths of a percent
Tenths(dc255) == (dc255 * 20 + 255) \div 510

\* C12: on a set-up RaspberryPiController set_mood_lamp_color(r, g, b)
\* returns with the red, green and blue duty cycles at r/255*100, g/255*100
\* and b/255*100, each within 0..100 and a function of its own channel
\* value alone, and with the LED channel's generator as it was; (255, 128,
\* 0) gives 100.0, 50.2 and 0.0 to one decimal.  All combinations of
\* ChannelValues are tried in every state, every value 0..255 in the states
\* that follow a setup(), cleanup() or set_mood_lamp_color() call.
C12_MoodLampDutyCycles ==
    (TheCtrl.kind = "RPi" /\ hist[1].done >= 1) =>
        /\ \A r, g, b \in ChannelValues :
              LET q == RPi_set_mood_lamp_color(World(1), r, g, b)
              IN  /\ q.out = "ok"
                  /\ <<q.c.pwm_r.dc, q.c.pwm_g.dc, q.c.pwm_b.dc>> = <<r * 100, g * 100, b * 100>>
                  /\ \A p \in {q.c.pwm_r, q.c.pwm_g, q.c.pwm_b} : p.dc \in 0..(100 * 255)
                  /\ q.c.pwm_led = TheCtrl.pwm_led
                  /\ q.c.pwm_r.st = TheCtrl.pwm_r.st
        /\ last.op \in {"setup", "cleanup", "set_mood_lamp_color"} =>
             \A v \in 0..255 :
              RPi_set_mood_lamp_color(World(1), v, 255 - v, (v + 128) % 256)
                 = [World(1) EXCEPT !.c.pwm_r.dc = v * 100,
                                    !.c.pwm_g.dc = (255 - v) * 100,
                                    !.c.pwm_b.dc = ((v + 128) % 256) * 100]
        /\ LET q == RPi_set_mood_lamp_color(World(1), 255, 128, 0)
           IN  <<Tenths(q.c.pwm_r.dc), Tenths(q.c.pwm_g.dc), Tenths(q.c.pwm_b.dc)>>
                  = <<1000, 502, 0>>
        /\ last.op = "set_mood_lamp_color" =>
              /\ last.out = "ok"
              /\ <<TheCtrl.pwm_r.dc, TheCtrl.pwm_g.dc, TheCtrl.pwm_b.dc>>
                    = <<last.a[1] * 100, last.a[2] * 100, last.a[3] * 100>>

\* set_mood_lamp_color(255, 128, 0) was called on a set-up controller whose
\* LED channel was at 37%, and left it there.
C12_Witness ==
    /\ CalledOnRPi("set_mood_lamp_color")
    /\ hist[1].done >= 1
    /\ last.a = <<255, 128, 0>>
    /\ Tenths(TheCtrl.pwm_g.dc) = 502
    /\ TheCtrl.pwm_led.dc = 37 * 255

\* C13: a MockController starts with (False, 100, (255, 255, 255), False);
\* after a setter's call its field holds the argument (for every level in
\* 0..100, set_dimmable_light(level) leaves level in its field and the
\* other three as they were); a field changes in no step but one of its own
\* setter, or of the external toggle for the doorbell flag; setup, cleanup,
\* read_doorbell, get_distance and capture_image change no field, and
\* read_doorbell returns the flag.
C13_MockFieldsFollowSetters ==
    /\ (TheCtrl.kind = "Mock" =>
           /\ TheCtrl.room_light_state = FALSE
           /\ TheCtrl.dimmable_light_brightness = 100
           /\ TheCtrl.mood_lamp_color = <<255, 255, 255>>
           /\ TheCtrl.doorbell_pressed = FALSE)
    /\ [](TheCtrl.kind = "Mock" =>
            /\ last.op = "set_room_light" => TheCtrl.room_light_state = last.a[1]
            /\ last.op = "set_dimmable_light"
                  => TheCtrl.dimmable_light_brightness = last.a[1]
            /\ last.op = "set_mood_lamp_color" => TheCtrl.mood_lamp_color = last.a
            /\ \A level \in 0..100 :
                  Mock_set_dimmable_light(World(1), level).c
                     = [TheCtrl EXCEPT !.dimmable_light_brightness = level]
            /\ Mock_read_doorbell(World(1)).ret = PyBool(TheCtrl.doorbell_pressed))
    /\ [][TheCtrl.kind = "Mock" =>
            LET c == ctrls[1]
                d == ctrls'[1]
            IN  /\ d.room_light_state # c.room_light_state
                      => (last'.op = "set_room_light" /\ d.room_light_state = last'.a[1])
                /\ d.dimmable_light_brightness # c.dimmable_light_brightness
                      => /\ last'.op = "set_dimmable_light"
                         /\ d.dimmable_light_brightness = last'.a[1]
                /\ d.mood_lamp_color # c.mood_lamp_color
                      => (last'.op = "set_mood_lamp_color" /\ d.mood_lamp_color = last'.a)
                /\ d.doorbell_pressed # c.doorbell_pressed => ToggleDoorbell
                /\ last'.op \in {"setup", "cleanup", "read_doorbell", "get_distance",
                                 "capture_image"}
                      => (d = c \/ ToggleDoorbell)
         ]_vars

\* Every field was written (level 37, light on, orange, doorbell toggled)
\* and a later cleanup() left all four as written.
C13_Witness ==
    /\ TheCtrl.kind = "Mock"
    /\ last.op = "cleanup"
    /\ TheCtrl.room_light_state
    /\ TheCtrl.dimmable_light_brightness = 37
    /\ TheCtrl.mood_lamp_color = <<255, 128, 0>>
    /\ TheCtrl.doorbell_pressed

\* Destinations the capture claims are evaluated at
OutputPaths == {SnapshotPath, PlaceholderPath, "captures/door.jpg"}

\* C14: MockController.capture_image(output_path) returns the placeholder
\* path when the placeholder file exists at the call and None when it does
\* not, whatever output_path is and however the placeholder was put and
\* removed before; it leaves the set of files as it is, so that no file
\* ever appears at the destination.
C14_MockCaptureReturnsPlaceholder ==
    TheCtrl.kind = "Mock" =>
        /\ \A output_path \in OutputPaths :
              LET q == Mock_capture_image(World(1), output_path)
              IN  /\ q.out = "ok"
                  /\ q.ret = IF PlaceholderPath \in files THEN PlaceholderPath ELSE "None"
                  /\ q.files = files
                  /\ q.c = TheCtrl
        /\ last.op = "capture_image" =>
              /\ last.out = "ok"
              /\ last.ret = IF last.a[2] THEN PlaceholderPath ELSE "None"
        /\ SnapshotPath \notin files

\* The placeholder was removed, capture_image returned None, and the
\* placeholder was put back after the call.
C14_Witness ==
    /\ TheCtrl.kind = "Mock"
    /\ last.op = "capture_image"
    /\ ~last.a[2]
    /\ last.ret = "None"
    /\ PlaceholderPath \in files

\* C15: every call of MockController.get_distance() returns 80 plus the
\* noise it sampled in [-1.5, 1.5], rounded to one decimal, hence a value
\* in [78.5, 81.5]; the value is a function of the sample alone, not of
\* the controller's state or of an earlier call, and the call changes
\* nothing.
C15_MockDistanceInRange ==
    TheCtrl.kind = "Mock" =>
        /\ \A noise \in -150..150 : \A noise10 \in Round1(noise) :
              LET q == Mock_get_distance(World(1), noise10)
              IN  /\ q.out = "ok"
                  /\ q.ret \in Round1(MockBaseDistance * 100 + noise)
                  /\ q.ret \in 785..815
                  /\ [q EXCEPT !.ret = "None"] = World(1)
        /\ last.op = "get_distance" => (last.out = "ok" /\ last.ret \in 785..815)

\* After other calls were made, a call returned 78.5, the least value.
C15_Witness ==
    /\ TheCtrl.kind = "Mock"
    /\ last.op = "get_distance"
    /\ last.ret = 785
    /\ hist[1].setups >= 1
    /\ TheCtrl.dimmable_light_brightness = 37

LightPins == {LED_PIN, R_PIN, G_PIN, B_PIN}

\* C16: setup() configures the direction of every output channel, then
\* starts every PWM generator at 0%, then configures the doorbell pin, then
\* the trigger and echo pins, then tries the camera.  After the one
\* setup() call made so far, however far it got: a generator is running
\* only if all four light channels are configured, and then at 0%; the
\* doorbell pin is configured only if all four generators are running; the
\* trigger and echo pins only if the doorbell pin is; and the camera is
\* held only if trigger and echo are configured.
C16_SetupStepOrder ==
    (CalledOnRPi("setup") /\ hist[1].setups = 1) =>
        LET pwms == {TheCtrl.pwm_led, TheCtrl.pwm_r, TheCtrl.pwm_g, TheCtrl.pwm_b}
        IN  /\ \A p \in pwms : p # None => (p = PwmStart /\ LightPins \subseteq pins)
            /\ BTN_PIN \in pins => None \notin pwms
            /\ pins \cap {TRIG_PIN, ECHO_PIN} # {} => BTN_PIN \in pins
            /\ TheCtrl.picam2 # NoCamera => {TRIG_PIN, ECHO_PIN} \subseteq pins

\* C17: on a set-up RaspberryPiController, set_room_light(state) returns
\* with the LED channel's duty cycle at 100 (state true) or 0, and
\* set_dimmable_light(level), for every level in 0..100, with it at level,
\* within 0..100; either call leaves the generators' running state and the
\* red, green and blue duty cycles as they were.  After any run of such
\* calls the LED duty cycle is the one the latest of them wrote.
C17_SharedLedChannel ==
    (TheCtrl.kind = "RPi" /\ hist[1].done >= 1) =>
        /\ \A state \in BOOLEAN :
              LET q == RPi_set_room_light(World(1), state)
              IN  /\ q.out = "ok"
                  /\ q.c = [TheCtrl EXCEPT !.pwm_led.dc = (IF state THEN 100 ELSE 0) * 255]
        /\ \A level \in 0..100 :
              LET q == RPi_set_dimmable_light(World(1), level)
              IN  /\ q.out = "ok"
                  /\ q.c = [TheCtrl EXCEPT !.pwm_led.dc = level * 255]
                  /\ q.c.pwm_led.dc \in 0..(100 * 255)
        /\ last.op = "set_room_light" =>
              /\ last.out = "ok"
              /\ TheCtrl.pwm_led.dc = (IF last.a[1] THEN 100 ELSE 0) * 255
        /\ last.op = "set_dimmable_light" =>
              (last.out = "ok" /\ TheCtrl.pwm_led.dc = last.a[1] * 255)

\* With the mood lamp at (255, 128, 0), set_room_light(False) was called
\* and left the LED channel at 0 and the green channel at 50.2%.
C17_Witness ==
    /\ CalledOnRPi("set_room_light")
    /\ hist[1].done >= 1
    /\ ~last.a[1]
    /\ TheCtrl.pwm_led = [st |-> "running", dc |-> 0]
    /\ TheCtrl.pwm_g.dc = 128 * 100

\* C18: a measurement follows the protocol order.  The trigger is low and
\* the settle wait has passed before it is driven high; it is high only
\* during the pulse; the echo pin is not read before the trigger is low
\* again and is only read while it is low; the second loop does not poll
\* before the first has; and the trigger is low when the call is over.
C18_TriggerProtocolOrder ==
    /\ dist.pc \in {"idle", "settled", "pulsing"} => dist.first = -1
    /\ dist.pc = "settled" => (dist.trig = 0 /\ dist.now >= SettleTicks)
    /\ dist.pc = "pulsing" => (dist.trig = 1 /\ dist.now >= SettleTicks)
    /\ dist.pc \in {"wait_high", "wait_low", "compute", "done", "returned"} => dist.trig = 0
    /\ dist.first # -1 => dist.trig = 0
    /\ dist.pc \in {"wait_low", "compute"} => dist.first # -1
    /\ dist.pulse_end # -1 => dist.first # -1
    /\ dist.pulse_start # -1 => dist.first = 0

\* A measurement that polled in both loops returned a distance, the trigger low.
C18_Witness ==
    /\ dist.pc = "returned"
    /\ dist.out = "ok"
    /\ dist.first = 0
    /\ dist.pulse_end > dist.pulse_start
    /\ dist.trig = 0
    /\ last.op = "get_distance"

\* C19: a call of get_distance() whose two polling loops have both ended
\* does not raise and returns a number that is not negative, also when the
\* echo pin read high at the first poll and when it was low again at the
\* second loop's first poll.
C19_DistanceNeverRaises ==
    dist.pc \in {"done", "returned"} => (dist.out = "ok" /\ dist.ret >= 0)

====
